---- MODULE Spec2Model ----
(***************************************************************************)
(* pyWhat: the command line entry point (pywhat/what.py) and the           *)
(* identification pipeline it drives.                                      *)
(*                                                                         *)
(* what.py is modelled from its source: create_filter, main and            *)
(* What_Object.what_is_this.  Filter, Distribution, the identifier         *)
(* (matcher, boundary classifier, sorter) and the helper module            *)
(* (str_to_key, Keys, the tag vocabulary) are imported by what.py; they    *)
(* are modelled from the design document (sections 4.1 to 4.6 and 7).      *)
(*                                                                         *)
(* Python strings are sequences of one-character strings, so that split,   *)
(* strip, isspace and float act on characters.  Floats are exact decimal   *)
(* fractions <<numerator, denominator>>.  An optional value (None or a     *)
(* value) is the empty sequence or a one-element sequence.                 *)
(***************************************************************************)
EXTENDS Integers, Sequences, FiniteSets, TLC

VARIABLES
    cfg,                \* per run: the command line arguments main receives
    pc,                 \* per run: main's position
    dist,               \* per run: Distribution(create_filter(...)), optional
    boundaryless,       \* per run: the boundaryless Filter, optional
    what_obj,           \* per run: What_Object(dist), optional
    key,                \* per run: the resolved sort key, optional
    call,               \* per run: the arguments identify was called with, optional
    raw,                \* per run: the matcher's RawMatch sequence
    classified,         \* per run: the ClassifiedMatch sequence
    distributed,        \* per run: Distribution.apply's output
    identified_output,  \* per run: what what_is_this returned, optional
    printed,            \* per run: what pretty_print was given, optional
    exit_code,          \* per run: the process exit status, optional
    stdout,             \* per run: the messages main printed
    uncaught            \* per run: the exception that ended the run, optional

vars == <<cfg, pc, dist, boundaryless, what_obj, key, call, raw, classified,
          distributed, identified_output, printed, exit_code, stdout,
          uncaught>>

-----------------------------------------------------------------------------
(* Bounds of the model.                                                    *)

MaxArgLen == 4      \* longest rarity argument drawn exhaustively
MaxBlobLen == 4     \* longest text input drawn exhaustively

-----------------------------------------------------------------------------
(* Optional values and sequences.                                          *)

None == <<>>
Some(v) == <<v>>
IsNone(o) == o = <<>>
Val(o) == o[1]

Range(s) == {s[k] : k \in 1..Len(s)}
Reverse(s) == [k \in 1..Len(s) |-> s[Len(s) + 1 - k]]
SeqsUpTo(S, n) == UNION {[1..k -> S] : k \in 0..n}

-----------------------------------------------------------------------------
(* Python string primitives used by create_filter.                         *)

Whitespace == {" "}
DigitSeq == <<"0", "1", "2", "3", "4", "5", "6", "7", "8", "9">>
Digits == Range(DigitSeq)
DigitVal(c) == (CHOOSE k \in 1..10 : DigitSeq[k] = c) - 1

\* str.split(sep): always at least one part; an empty string gives [""].
RECURSIVE split(_, _)
split(s, sep) ==
    IF \A k \in 1..Len(s) : s[k] # sep
    THEN <<s>>
    ELSE LET k == CHOOSE k \in 1..Len(s) :
                     s[k] = sep /\ \A j \in 1..(k - 1) : s[j] # sep
         IN <<SubSeq(s, 1, k - 1)>> \o split(SubSeq(s, k + 1, Len(s)), sep)

\* str.isspace(): non-empty and whitespace only.
isspace(s) == Len(s) > 0 /\ \A k \in 1..Len(s) : s[k] \in Whitespace

\* str.strip(): leading and trailing whitespace removed.
strip(s) ==
    IF \A k \in 1..Len(s) : s[k] \in Whitespace
    THEN <<>>
    ELSE LET lo == CHOOSE k \in 1..Len(s) :
                      s[k] \notin Whitespace /\ \A j \in 1..(k - 1) : s[j] \in Whitespace
             hi == CHOOSE k \in 1..Len(s) :
                      s[k] \notin Whitespace /\ \A j \in (k + 1)..Len(s) : s[j] \in Whitespace
         IN SubSeq(s, lo, hi)

RECURSIVE DigitsValue(_)
DigitsValue(ds) ==
    IF ds = <<>> THEN 0
    ELSE 10 * DigitsValue(SubSeq(ds, 1, Len(ds) - 1)) + DigitVal(ds[Len(ds)])

RECURSIVE Pow10(_)
Pow10(n) == IF n = 0 THEN 1 ELSE 10 * Pow10(n - 1)

\* float(s) on decimal literals: surrounding whitespace is ignored, then
\* digits with at most one point and at least one digit; anything else is
\* a ValueError.  The value is the exact fraction <<n, d>>.
float(s) ==
    LET t == strip(s)
        dots == {k \in 1..Len(t) : t[k] = "."}
        p == IF dots = {} THEN Len(t) + 1 ELSE CHOOSE k \in dots : TRUE
        ip == SubSeq(t, 1, p - 1)
        fp == SubSeq(t, p + 1, Len(t))
        wellformed == /\ Cardinality(dots) <= 1
                      /\ \A k \in 1..Len(t) : t[k] \in Digits \cup {"."}
                      /\ Len(ip) + Len(fp) > 0
    IN IF wellformed
       THEN [ok |-> TRUE, val |-> <<DigitsValue(ip \o fp), Pow10(Len(fp))>>]
       ELSE [ok |-> FALSE, val |-> <<0, 1>>]

\* a <= b on fractions with positive denominators.
RLeq(a, b) == a[1] * b[2] <= b[1] * a[2]

-----------------------------------------------------------------------------
(* Character order (code points) for lexicographic comparison.             *)

CharSeq == <<" ", ",", "-", ".", "0", "1", "2", "3", "4", "5", "6", "7", "8",
             "9", ":", "A", "a", "b", "c", "o", "t", "x", "y", "z">>
Ord(c) == CHOOSE k \in 1..Len(CharSeq) : CharSeq[k] = c

\* a < b, as Python compares strings.
LexLess(a, b) ==
    \E k \in 1..(Len(a) + 1) :
        /\ \A j \in 1..(k - 1) : j <= Len(b) /\ a[j] = b[j]
        /\ k <= Len(b)
        /\ (k = Len(a) + 1 \/ Ord(a[k]) < Ord(b[k]))

IsAlnum(c) == c \in Digits \cup {"A", "a", "b", "c", "o", "t", "x", "y", "z"}

-----------------------------------------------------------------------------
(* 4.1 Pattern Catalog.  The catalog's data is outside the system; this is *)
(* a small catalog of literal patterns with the metadata the pipeline      *)
(* reads: name, tags, rarity.  Signatures 2 and 4 match the same text;     *)
(* signature 1 has a connector ("-") inside its pattern.                   *)

allSignatures ==
    << [name |-> <<"c">>, pattern |-> <<"1", "-", "a">>,
        tags |-> {<<"a">>, <<"b">>}, rarity |-> <<5, 10>>],
       [name |-> <<"a">>, pattern |-> <<"1">>,
        tags |-> {<<"b">>}, rarity |-> <<1, 1>>],
       [name |-> <<"b">>, pattern |-> <<"a">>,
        tags |-> {<<"c">>}, rarity |-> <<0, 1>>],
       [name |-> <<"a", "b">>, pattern |-> <<"1">>,
        tags |-> {<<"a">>, <<"c">>}, rarity |-> <<1, 10>>],
       [name |-> <<"t", "o", "y">>, pattern |-> <<"1", "A", "1">>,
        tags |-> {<<"c">>}, rarity |-> <<5, 10>>] >>

tagVocabulary == UNION {allSignatures[k].tags : k \in 1..Len(allSignatures)}

\* The signature's internal character class: the connectors its own
\* pattern permits.
InternalClass(sig) == {c \in Range(sig.pattern) : ~IsAlnum(c)}

-----------------------------------------------------------------------------
(* 4.2 Matcher: every signature, in declaration order, against the blob;   *)
(* per signature the leftmost non-overlapping matches.                     *)

RECURSIVE finditer(_, _, _)
finditer(pattern, blob, from) ==
    IF from + Len(pattern) - 1 > Len(blob) THEN <<>>
    ELSE IF SubSeq(blob, from, from + Len(pattern) - 1) = pattern
         THEN <<from>> \o finditer(pattern, blob, from + Len(pattern))
         ELSE finditer(pattern, blob, from + 1)

RawMatches(k, blob) ==
    LET starts == finditer(allSignatures[k].pattern, blob, 1)
    IN [j \in 1..Len(starts) |->
           [sig |-> k,
            text |-> SubSeq(blob, starts[j],
                            starts[j] + Len(allSignatures[k].pattern) - 1),
            span |-> <<starts[j], starts[j] + Len(allSignatures[k].pattern) - 1>>]]

RECURSIVE MatchFrom(_, _)
MatchFrom(k, blob) ==
    IF k > Len(allSignatures) THEN <<>>
    ELSE RawMatches(k, blob) \o MatchFrom(k + 1, blob)

match(blob) == MatchFrom(1, blob)

-----------------------------------------------------------------------------
(* 4.3 Boundary Classifier.                                                *)

\* A boundary character is neither alphanumeric nor in the signature's
\* internal character class.
IsBoundaryChar(sig, c) == ~IsAlnum(c) /\ c \notin InternalClass(sig)

\* Mutant: only the character before the span is looked at.
IsBounded_left_only(rawm, blob) ==
    rawm.span[1] > 1 =>
        (~IsAlnum(blob[rawm.span[1] - 1])
         /\ blob[rawm.span[1] - 1] \notin
                {c \in Range(allSignatures[rawm.sig].pattern) : ~IsAlnum(c)})

\* Bounded iff the character before the span (if any) and the character
\* after it (if any) are boundary characters.
IsBounded(rawm, blob) ==
    LET sig == allSignatures[rawm.sig]
    IN /\ rawm.span[1] > 1 => IsBoundaryChar(sig, blob[rawm.span[1] - 1])
       /\ rawm.span[2] < Len(blob) => IsBoundaryChar(sig, blob[rawm.span[2] + 1])

classify(rawm, blob) ==
    [sig |-> rawm.sig, text |-> rawm.text, span |-> rawm.span,
     bounded |-> IsBounded(rawm, blob)]

-----------------------------------------------------------------------------
(* 4.4 Filter.                                                             *)

DefaultMinRarity == <<0, 1>>
DefaultMaxRarity == <<1, 1>>

HasKey(d, k) == k \in DOMAIN d
MinOf(d) == IF HasKey(d, "MinRarity") THEN d["MinRarity"] ELSE DefaultMinRarity
MaxOf(d) == IF HasKey(d, "MaxRarity") THEN d["MaxRarity"] ELSE DefaultMaxRarity
TagsOf(d, k) == IF HasKey(d, k) THEN Range(d[k]) ELSE {}

\* The conditions a filter dictionary violates: a tag outside the catalog's
\* vocabulary (InvalidTag), a range with min > max (InvalidRange).
FilterErrors(d) ==
    (IF (TagsOf(d, "Tags") \cup TagsOf(d, "ExcludeTags")) \subseteq tagVocabulary
     THEN {} ELSE {"InvalidTag"})
    \cup
    (IF RLeq(MinOf(d), MaxOf(d)) THEN {} ELSE {"InvalidRange"})

\* Filter(filters_dict) once validated; omitted bounds default to 0 and 1.
Filter(d) ==
    [MinRarity |-> MinOf(d), MaxRarity |-> MaxOf(d),
     Tags |-> TagsOf(d, "Tags"), ExcludeTags |-> TagsOf(d, "ExcludeTags")]

accepts(f, m) ==
    LET sig == allSignatures[m.sig]
    IN /\ RLeq(f.MinRarity, sig.rarity) /\ RLeq(sig.rarity, f.MaxRarity)
       /\ f.Tags # {} => sig.tags \cap f.Tags # {}
       /\ f.ExcludeTags # {} => sig.tags \cap f.ExcludeTags = {}

-----------------------------------------------------------------------------
(* 4.5 Distribution.                                                       *)

Distribution(f) == [filter |-> f]

apply(matches, boundedFilter, boundarylessFilter) ==
    LET keepBounded(m) == m.bounded /\ accepts(boundedFilter, m)
        keepBoundaryless(m) == ~m.bounded /\ accepts(boundarylessFilter, m)
    IN SelectSeq(matches, keepBounded) \o SelectSeq(matches, keepBoundaryless)

-----------------------------------------------------------------------------
(* 4.6 Sorter, and the helper's sort keys.                                 *)

KeysNONE == "Keys.NONE"
KeysNAME == "Keys.NAME"
KeysRARITY == "Keys.RARITY"
KeysMATCHED == "Keys.MATCHED"

\* str_to_key: the key names main's help lists; any other is a ValueError.
str_to_key(s) ==
    CASE s = "name" -> [ok |-> TRUE, val |-> KeysNAME]
      [] s = "rarity" -> [ok |-> TRUE, val |-> KeysRARITY]
      [] s = "matched" -> [ok |-> TRUE, val |-> KeysMATCHED]
      [] s = "none" -> [ok |-> TRUE, val |-> KeysNONE]
      [] OTHER -> [ok |-> FALSE, val |-> KeysNONE]

\* m1 is strictly before m2 under the key.
KeyLess(k, m1, m2) ==
    CASE k = KeysNAME ->
           LexLess(allSignatures[m1.sig].name, allSignatures[m2.sig].name)
      [] k = KeysRARITY ->
           ~RLeq(allSignatures[m2.sig].rarity, allSignatures[m1.sig].rarity)
      [] k = KeysMATCHED -> LexLess(m1.text, m2.text)
      [] OTHER -> FALSE

\* m goes after every element that is not strictly greater: stable.
RECURSIVE insert(_, _, _)
insert(sorted, m, k) ==
    IF sorted = <<>> THEN <<m>>
    ELSE IF KeyLess(k, m, sorted[Len(sorted)])
         THEN insert(SubSeq(sorted, 1, Len(sorted) - 1), m, k)
                  \o <<sorted[Len(sorted)]>>
         ELSE sorted \o <<m>>

RECURSIVE stable_sort(_, _)
stable_sort(matches, k) ==
    IF matches = <<>> THEN <<>>
    ELSE insert(stable_sort(SubSeq(matches, 1, Len(matches) - 1), k),
                matches[Len(matches)], k)

sort(matches, k, reverse) ==
    LET ordered == IF k = KeysNONE THEN matches ELSE stable_sort(matches, k)
    IN IF reverse THEN Reverse(ordered) ELSE ordered

-----------------------------------------------------------------------------
(* what.py: create_filter.                                                 *)

\* What a call of create_filter ends in: a returned Filter, sys.exit(1)
\* after a message, or an exception it does not catch.
Returned(f) == [kind |-> "return", filter |-> Some(f), out |-> "", exc |-> ""]
Exited(msg) == [kind |-> "exit", filter |-> None, out |-> msg, exc |-> ""]
Raised(e) == [kind |-> "raise", filter |-> None, out |-> "", exc |-> e]

MsgRarityFormat == "Invalid rarity range format ('min:max' expected)"
MsgRarityFloat == "Invalid rarity argument (float expected)"
MsgTags == "Passed tags are not valid."
MsgKey == "Invalid key"

EmptyDict == [k \in {} |-> {}]

\* list(map(str.strip, s.split(",")))
TagList(s) == LET parts == split(s, ",")
              IN [k \in 1..Len(parts) |-> strip(parts[k])]

\* Mutant: the two sides are stored under each other's key.
rarity_entries_swapped(rarities) ==
    LET given(k) == ~isspace(rarities[k]) /\ rarities[k] # <<>>
    IN (IF given(1) THEN "MaxRarity" :> float(rarities[1]).val ELSE EmptyDict)
       @@ (IF given(2) THEN "MinRarity" :> float(rarities[2]).val ELSE EmptyDict)

\* Mutant: the max side is never stored.
rarity_entries_without_max(rarities) ==
    LET given(k) == ~isspace(rarities[k]) /\ rarities[k] # <<>>
    IN IF given(1) THEN "MinRarity" :> float(rarities[1]).val ELSE EmptyDict

\* The rarity part of filters_dict: a side that is empty or whitespace only
\* is left out.
rarity_entries(rarities) ==
    LET given(k) == ~isspace(rarities[k]) /\ rarities[k] # <<>>
    IN (IF given(1) THEN "MinRarity" :> float(rarities[1]).val ELSE EmptyDict)
       @@ (IF given(2) THEN "MaxRarity" :> float(rarities[2]).val ELSE EmptyDict)

\* float raises ValueError on a side that is given.
rarity_value_error(rarities) ==
    \E k \in 1..2 : ~isspace(rarities[k]) /\ rarities[k] # <<>>
                    /\ ~float(rarities[k]).ok

\* Mutant: the exclude list is stored under "Tags" (the key of the line
\* above), so nothing is excluded.
tag_entries_exclude_as_tags(include, exclude) ==
    (IF ~IsNone(exclude) THEN "Tags" :> TagList(Val(exclude)) ELSE EmptyDict)
    @@ (IF ~IsNone(include) THEN "Tags" :> TagList(Val(include)) ELSE EmptyDict)

\* The tag part of filters_dict.
tag_entries(include, exclude) ==
    (IF ~IsNone(include) THEN "Tags" :> TagList(Val(include)) ELSE EmptyDict)
    @@ (IF ~IsNone(exclude) THEN "ExcludeTags" :> TagList(Val(exclude))
        ELSE EmptyDict)

\* Mutant: on InvalidTag the handler falls back to a filter without criteria
\* instead of exiting.
try_filter_falls_back(filters_dict) ==
    IF FilterErrors(filters_dict) = {}
    THEN {Returned(Filter(filters_dict))}
    ELSE {IF e = "InvalidTag" THEN Returned(Filter(EmptyDict)) ELSE Raised(e) :
              e \in FilterErrors(filters_dict)}

\* try: Filter(filters_dict); except InvalidTag: print, sys.exit(1).
\* The set of outcomes: one, except that a dictionary violating several of
\* Filter's conditions may raise any of them.
try_filter(filters_dict) ==
    IF FilterErrors(filters_dict) = {}
    THEN {Returned(Filter(filters_dict))}
    ELSE {IF e = "InvalidTag" THEN Exited(MsgTags) ELSE Raised(e) :
              e \in FilterErrors(filters_dict)}

create_filter(rarity, include, exclude) ==
    LET rarities == IF IsNone(rarity) THEN <<>> ELSE split(Val(rarity), ":")
    IN IF ~IsNone(rarity) /\ Len(rarities) # 2
       THEN {Exited(MsgRarityFormat)}
       ELSE IF ~IsNone(rarity) /\ rarity_value_error(rarities)
       THEN {Exited(MsgRarityFloat)}
       ELSE try_filter((IF IsNone(rarity) THEN EmptyDict
                        ELSE rarity_entries(rarities))
                       @@ tag_entries(include, exclude))

-----------------------------------------------------------------------------
(* what.py: What_Object and main.                                          *)

\* What_Object.__init__: the identifier holds the distribution.
What_Object(distribution) == [id |-> [dist |-> distribution]]

\* Mutant: reverse is not passed on (identify's default, False, applies).
what_is_this_drops_reverse(self, text, only_text, k, reverse, bl) ==
    [text |-> text, only_text |-> only_text, dist |-> self.id.dist,
     key |-> k, reverse |-> FALSE, boundaryless |-> bl]

\* What_Object.what_is_this: the call of identify it makes.
what_is_this(self, text, only_text, k, reverse, bl) ==
    [text |-> text, only_text |-> only_text, dist |-> self.id.dist,
     key |-> k, reverse |-> reverse, boundaryless |-> bl]

\* Mutant: the Distribution's filter is built from the boundaryless
\* arguments.
main_dist_args_from_boundaryless(c) ==
    <<c.boundaryless_rarity, c.boundaryless_include, c.boundaryless_exclude>>

\* The arguments of main's two create_filter calls.
main_dist_args(c) == <<c.rarity, c.include, c.exclude>>
\* Mutant: the boundaryless filter is built from the bounded filter's
\* arguments.
main_boundaryless_args_from_bounded(c) == <<c.rarity, c.include, c.exclude>>

main_boundaryless_args(c) ==
    <<c.boundaryless_rarity, c.boundaryless_include, c.boundaryless_exclude>>

\* Mutant: without --key the key is Keys.NAME.
main_key_defaults_to_name(k) ==
    IF IsNone(k) THEN [ok |-> TRUE, val |-> KeysNAME] ELSE str_to_key(Val(k))

\* Mutant: a key str_to_key rejects is replaced by Keys.NONE instead of
\* ending the run.
main_key_ignores_invalid(k) ==
    IF IsNone(k) \/ ~str_to_key(Val(k)).ok
    THEN [ok |-> TRUE, val |-> KeysNONE] ELSE str_to_key(Val(k))

\* main's resolution of --key: Keys.NONE when absent, else str_to_key.
main_key(k) ==
    IF IsNone(k) THEN [ok |-> TRUE, val |-> KeysNONE] ELSE str_to_key(Val(k))

Terminal == {"returned", "exited", "raised"}

\* Runs are successive invocations of the program.
Turn(i) == \A j \in DOMAIN pc : j < i => pc[j] \in Terminal

\* sys.exit(1) after printing msg.
SysExit(i, msg) ==
    /\ pc' = [pc EXCEPT ![i] = "exited"]
    /\ exit_code' = [exit_code EXCEPT ![i] = Some(1)]
    /\ stdout' = [stdout EXCEPT ![i] = Append(@, msg)]
    /\ UNCHANGED uncaught

\* An exception nothing catches: the interpreter prints the traceback and
\* ends the process with status 1.
Propagate(i, e) ==
    /\ pc' = [pc EXCEPT ![i] = "raised"]
    /\ exit_code' = [exit_code EXCEPT ![i] = Some(1)]
    /\ uncaught' = [uncaught EXCEPT ![i] = Some(e)]
    /\ UNCHANGED stdout

Goto(i, label) ==
    /\ pc' = [pc EXCEPT ![i] = label]
    /\ UNCHANGED <<exit_code, stdout, uncaught>>

\* dist = Distribution(create_filter(rarity, include, exclude))
MainDist(i) ==
    /\ pc[i] = "dist" /\ Turn(i)
    /\ LET a == main_dist_args(cfg[i])
       IN \E o \in create_filter(a[1], a[2], a[3]) :
            IF o.kind = "return"
            THEN /\ dist' = [dist EXCEPT ![i] = Some(Distribution(Val(o.filter)))]
                 /\ Goto(i, "boundaryless")
            ELSE /\ UNCHANGED dist
                 /\ IF o.kind = "exit" THEN SysExit(i, o.out) ELSE Propagate(i, o.exc)
    /\ UNCHANGED <<cfg, boundaryless, what_obj, key, call, raw, classified,
                   distributed, identified_output, printed>>

\* boundaryless = create_filter(boundaryless_rarity, ...)
MainBoundaryless(i) ==
    /\ pc[i] = "boundaryless" /\ Turn(i)
    /\ LET a == main_boundaryless_args(cfg[i])
       IN \E o \in create_filter(a[1], a[2], a[3]) :
            IF o.kind = "return"
            THEN /\ boundaryless' = [boundaryless EXCEPT ![i] = o.filter]
                 /\ Goto(i, "what_obj")
            ELSE /\ UNCHANGED boundaryless
                 /\ IF o.kind = "exit" THEN SysExit(i, o.out) ELSE Propagate(i, o.exc)
    /\ UNCHANGED <<cfg, dist, what_obj, key, call, raw, classified,
                   distributed, identified_output, printed>>

\* what_obj = What_Object(dist)
MainWhatObject(i) ==
    /\ pc[i] = "what_obj" /\ Turn(i)
    /\ what_obj' = [what_obj EXCEPT ![i] = Some(What_Object(Val(dist[i])))]
    /\ Goto(i, "key")
    /\ UNCHANGED <<cfg, dist, boundaryless, key, call, raw, classified,
                   distributed, identified_output, printed>>

\* key = Keys.NONE, or str_to_key(key); a ValueError prints and exits.
MainKey(i) ==
    /\ pc[i] = "key" /\ Turn(i)
    /\ LET r == main_key(cfg[i].key)
       IN IF r.ok
          THEN /\ key' = [key EXCEPT ![i] = Some(r.val)]
               /\ Goto(i, "what_is_this")
          ELSE /\ UNCHANGED key
               /\ SysExit(i, MsgKey)
    /\ UNCHANGED <<cfg, dist, boundaryless, what_obj, call, raw, classified,
                   distributed, identified_output, printed>>

\* what_obj.what_is_this(text_input, only_text, key, reverse, boundaryless)
MainWhatIsThis(i) ==
    /\ pc[i] = "what_is_this" /\ Turn(i)
    /\ call' = [call EXCEPT ![i] =
                   Some(what_is_this(Val(what_obj[i]), cfg[i].text_input,
                                     cfg[i].only_text, Val(key[i]),
                                     cfg[i].reverse, Val(boundaryless[i])))]
    /\ Goto(i, "match")
    /\ UNCHANGED <<cfg, dist, boundaryless, what_obj, key, raw, classified,
                   distributed, identified_output, printed>>

-----------------------------------------------------------------------------
(* identify: Matcher, Boundary Classifier, Distribution, Sorter.           *)

IdentifyMatch(i) ==
    /\ pc[i] = "match" /\ Turn(i)
    /\ raw' = [raw EXCEPT ![i] = match(Val(call[i]).text)]
    /\ Goto(i, "classify")
    /\ UNCHANGED <<cfg, dist, boundaryless, what_obj, key, call, classified,
                   distributed, identified_output, printed>>

IdentifyClassify(i) ==
    /\ pc[i] = "classify" /\ Turn(i)
    /\ classified' = [classified EXCEPT ![i] =
           [j \in 1..Len(raw[i]) |-> classify(raw[i][j], Val(call[i]).text)]]
    /\ Goto(i, "distribute")
    /\ UNCHANGED <<cfg, dist, boundaryless, what_obj, key, call, raw,
                   distributed, identified_output, printed>>

IdentifyDistribute(i) ==
    /\ pc[i] = "distribute" /\ Turn(i)
    /\ distributed' = [distributed EXCEPT ![i] =
           apply(classified[i], Val(call[i]).dist.filter, Val(call[i]).boundaryless)]
    /\ Goto(i, "sort")
    /\ UNCHANGED <<cfg, dist, boundaryless, what_obj, key, call, raw,
                   classified, identified_output, printed>>

IdentifySort(i) ==
    /\ pc[i] = "sort" /\ Turn(i)
    /\ identified_output' = [identified_output EXCEPT ![i] =
           Some(sort(distributed[i], Val(call[i]).key, Val(call[i]).reverse))]
    /\ Goto(i, "print")
    /\ UNCHANGED <<cfg, dist, boundaryless, what_obj, key, call, raw,
                   classified, distributed, printed>>

\* p.pretty_print(identified_output, text_input); main returns.
MainPrint(i) ==
    /\ pc[i] = "print" /\ Turn(i)
    /\ printed' = [printed EXCEPT ![i] = identified_output[i]]
    /\ pc' = [pc EXCEPT ![i] = "returned"]
    /\ exit_code' = [exit_code EXCEPT ![i] = Some(0)]
    /\ UNCHANGED <<cfg, dist, boundaryless, what_obj, key, call, raw,
                   classified, distributed, identified_output, stdout, uncaught>>

Next ==
    \/ \E i \in DOMAIN pc : MainDist(i)
    \/ \E i \in DOMAIN pc : MainBoundaryless(i)
    \/ \E i \in DOMAIN pc : MainWhatObject(i)
    \/ \E i \in DOMAIN pc : MainKey(i)
    \/ \E i \in DOMAIN pc : MainWhatIsThis(i)
    \/ \E i \in DOMAIN pc : IdentifyMatch(i)
    \/ \E i \in DOMAIN pc : IdentifyClassify(i)
    \/ \E i \in DOMAIN pc : IdentifyDistribute(i)
    \/ \E i \in DOMAIN pc : IdentifySort(i)
    \/ \E i \in DOMAIN pc : MainPrint(i)

-----------------------------------------------------------------------------
(* Command lines.                                                          *)

DefaultRarity == <<"0", ".", "1", ":", "1">>

Cfg(text, rarity, include, exclude, k, reverse, br, bi, be) ==
    [text_input |-> text, rarity |-> Some(rarity), include |-> include,
     exclude |-> exclude, only_text |-> FALSE, key |-> k, reverse |-> reverse,
     boundaryless_rarity |-> Some(br), boundaryless_include |-> bi,
     boundaryless_exclude |-> be]

\* The state main starts in, for the runs with command lines cs.
Start(cs) ==
    /\ cfg = cs
    /\ pc = [i \in DOMAIN cs |-> "dist"]
    /\ dist = [i \in DOMAIN cs |-> None]
    /\ boundaryless = [i \in DOMAIN cs |-> None]
    /\ what_obj = [i \in DOMAIN cs |-> None]
    /\ key = [i \in DOMAIN cs |-> None]
    /\ call = [i \in DOMAIN cs |-> None]
    /\ raw = [i \in DOMAIN cs |-> <<>>]
    /\ classified = [i \in DOMAIN cs |-> <<>>]
    /\ distributed = [i \in DOMAIN cs |-> <<>>]
    /\ identified_output = [i \in DOMAIN cs |-> None]
    /\ printed = [i \in DOMAIN cs |-> None]
    /\ exit_code = [i \in DOMAIN cs |-> None]
    /\ stdout = [i \in DOMAIN cs |-> <<>>]
    /\ uncaught = [i \in DOMAIN cs |-> None]

Texts == {<<"a", "1", "-", "a", " ", "1">>, <<"1", "1", " ", "a">>,
          <<"-", "1", "-", "a">>, <<>>}
Rarities == {DefaultRarity, <<"0", ":">>, <<":", "0", ".", "5">>,
             <<"0", ".", "9", ":", "0", ".", "2">>, <<"x", ":", "1">>,
             <<"0", ".", "5">>}
Includes == {None, Some(<<"a">>), Some(<<" ", "b", " ", ",", "a">>), Some(<<"z">>)}
Excludes == {None, Some(<<"a">>), Some(<<"b", ",", " ", "z">>)}
KeyArgs == {None, Some("name"), Some("rarity"), Some("matched"), Some("none"),
            Some("bogus")}
BoundarylessRarities == {DefaultRarity, <<"0", ":">>, <<"0", ".", "5">>}
BoundarylessIncludes == {None, Some(<<"c">>)}
BoundarylessExcludes == {None, Some(<<"c", ",", "b">>), Some(<<"z">>)}

\* One run; every argument ranges over representative values.
Init ==
    \E t \in Texts, r \in Rarities, inc \in Includes, exc \in Excludes,
       k \in KeyArgs, rev \in BOOLEAN, br \in BoundarylessRarities,
       bi \in BoundarylessIncludes, be \in BoundarylessExcludes :
        Start(<<Cfg(t, r, inc, exc, k, rev, br, bi, be)>>)

Spec == Init /\ [][Next]_vars

-----------------------------------------------------------------------------
(* One run whose rarity argument, for the bounded or for the boundaryless  *)
(* filter, is every string up to MaxArgLen over ArgChars.                  *)

ArgChars == {"0", "1", "5", ".", ":", " ", "x"}
ArgText == <<"1", "-", "a", " ", "a", "1">>
ExtraRarityArgs == {DefaultRarity, <<"0", ".", "9", ":", "0", ".", "2">>,
                    <<"0", ".", "5", ":">>}

InitArgs ==
    \E r \in SeqsUpTo(ArgChars, MaxArgLen) \cup ExtraRarityArgs,
       pos \in {"bounded", "boundaryless"},
       inc \in {None, Some(<<"z">>)}, k \in {None, Some("bogus")} :
        Start(<<Cfg(ArgText,
                    IF pos = "bounded" THEN r ELSE DefaultRarity, inc, None,
                    k, FALSE,
                    IF pos = "boundaryless" THEN r ELSE DefaultRarity, None, None)>>)

SpecArgs == InitArgs /\ [][Next]_vars

-----------------------------------------------------------------------------
(* One run whose text input is every string up to MaxBlobLen over          *)
(* BlobChars, and the two blobs of the boundary example.                   *)

BlobChars == {"1", "a", " ", "-"}
ToyEmbedded == <<"a", "b", "c", "1", "A", "1", "x", "y", "z">>
ToyStandalone == <<" ", "1", "A", "1", " ">>

BlobFilters ==
    {<<<<"0", ":">>, <<"0", ":">>, None>>,
     <<DefaultRarity, <<"0", ".", "5", ":">>, Some(<<"b">>)>>}

InitBlob ==
    \E t \in SeqsUpTo(BlobChars, MaxBlobLen) \cup {ToyEmbedded, ToyStandalone},
       f \in BlobFilters,
       k \in {None, Some("name"), Some("rarity"), Some("matched")},
       rev \in BOOLEAN :
        Start(<<Cfg(t, f[1], None, f[3], k, rev, f[2], None, None)>>)

SpecBlob == InitBlob /\ [][Next]_vars

-----------------------------------------------------------------------------
(* Two runs on the same input that differ only in the bounded filter's     *)
(* arguments.                                                              *)

PairRarities == {DefaultRarity, <<"0", ":">>, <<":", "0", ".", "5">>}
PairTags == {None, Some(<<"a">>)}

InitPair ==
    \E t \in Texts \ {<<>>}, k \in {None, Some("name")},
       br \in {DefaultRarity, <<"0", ":">>}, bi \in BoundarylessIncludes,
       be \in {None, Some(<<"b">>)},
       r1 \in PairRarities, r2 \in PairRarities, inc1 \in PairTags,
       inc2 \in PairTags, exc1 \in PairTags, exc2 \in PairTags :
        Start(<<Cfg(t, r1, inc1, exc1, k, FALSE, br, bi, be),
                Cfg(t, r2, inc2, exc2, k, FALSE, br, bi, be)>>)

SpecPair == InitPair /\ [][Next]_vars

-----------------------------------------------------------------------------
(* The representative command lines together with the exhaustive rarity    *)
(* arguments.                                                              *)

InitCli == Init \/ InitArgs

SpecCli == InitCli /\ [][Next]_vars

-----------------------------------------------------------------------------
(* Vocabulary of the properties: what a command line asks for, read from   *)
(* its arguments alone.                                                    *)

\* The tags an --include or --exclude argument names.
ArgTags(o) == IF IsNone(o) THEN {} ELSE Range(TagList(Val(o)))

SigOf(m) == allSignatures[m.sig]

\* identify has produced Distribution's output for run i.
Distributed(i) == pc[i] \in {"sort", "print", "returned"}
\* identify has returned for run i.
Identified(i) == pc[i] \in {"print", "returned"}

\* A rarity argument, read as the help text describes it: 'min:max', either
\* side optional.
RaritySides(o) == split(Val(o), ":")
SideGiven(side) == \E k \in 1..Len(side) : side[k] \notin Whitespace
RarityBadFormat(o) == ~IsNone(o) /\ Len(RaritySides(o)) # 2
RarityBadFloat(o) ==
    /\ ~IsNone(o) /\ Len(RaritySides(o)) = 2
    /\ \E k \in 1..2 : SideGiven(RaritySides(o)[k]) /\ ~float(RaritySides(o)[k]).ok
RarityWellFormed(o) == ~RarityBadFormat(o) /\ ~RarityBadFloat(o)
ClaimedMin(o) ==
    IF ~IsNone(o) /\ SideGiven(RaritySides(o)[1])
    THEN float(RaritySides(o)[1]).val ELSE <<0, 1>>
ClaimedMax(o) ==
    IF ~IsNone(o) /\ SideGiven(RaritySides(o)[2])
    THEN float(RaritySides(o)[2]).val ELSE <<1, 1>>
RarityInverted(o) ==
    RarityWellFormed(o) /\ ~RLeq(ClaimedMin(o), ClaimedMax(o))
InClaimedRange(o, m) ==
    RLeq(ClaimedMin(o), SigOf(m).rarity) /\ RLeq(SigOf(m).rarity, ClaimedMax(o))

UnknownTags(inc, exc) == ~((ArgTags(inc) \cup ArgTags(exc)) \subseteq tagVocabulary)
BadKey(k) == ~IsNone(k) /\ Val(k) \notin {"name", "rarity", "matched", "none"}

\* The configuration errors main reports with exit status 1.
ConfigError(c) ==
    \/ RarityBadFormat(c.rarity) \/ RarityBadFloat(c.rarity)
    \/ UnknownTags(c.include, c.exclude)
    \/ RarityBadFormat(c.boundaryless_rarity)
    \/ RarityBadFloat(c.boundaryless_rarity)
    \/ UnknownTags(c.boundaryless_include, c.boundaryless_exclude)
    \/ BadKey(c.key)

BoundedArgsValid(c) ==
    /\ RarityWellFormed(c.rarity) /\ ~RarityInverted(c.rarity)
    /\ ~UnknownTags(c.include, c.exclude)

-----------------------------------------------------------------------------
(* C1: when the include and the exclude tag sets of a filter share a tag,  *)
(* every match whose signature tags meet both sets is rejected by that     *)
(* filter, whatever the rarity range: no such match is in Distribution's   *)
(* output, for the bounded filter (bounded matches) and for the            *)
(* boundaryless filter (boundaryless matches).                             *)

MeetsBoth(m, inc, exc) ==
    /\ ArgTags(inc) \cap ArgTags(exc) # {}
    /\ SigOf(m).tags \cap ArgTags(inc) # {}
    /\ SigOf(m).tags \cap ArgTags(exc) # {}

C1_ExcludeTakesPrecedence ==
    \A i \in DOMAIN pc :
        Distributed(i) =>
            \A j \in 1..Len(distributed[i]) :
                LET m == distributed[i][j]
                IN IF m.bounded
                   THEN ~MeetsBoth(m, cfg[i].include, cfg[i].exclude)
                   ELSE ~MeetsBoth(m, cfg[i].boundaryless_include,
                                   cfg[i].boundaryless_exclude)

\* A bounded match that is in the filter's rarity range and has an included
\* tag was classified and is not in the output, because it also has an
\* excluded tag.
C1_Witness ==
    \E i \in DOMAIN pc :
        /\ Distributed(i)
        /\ \E j \in 1..Len(classified[i]) :
               LET m == classified[i][j]
                   f == Val(dist[i]).filter
               IN /\ m.bounded
                  /\ MeetsBoth(m, cfg[i].include, cfg[i].exclude)
                  /\ RLeq(f.MinRarity, SigOf(m).rarity)
                  /\ RLeq(SigOf(m).rarity, f.MaxRarity)
                  /\ m \notin Range(distributed[i])

-----------------------------------------------------------------------------
(* C2: distribution independence.  Two runs on the same input that differ  *)
(* only in the bounded filter's arguments keep exactly the same            *)
(* boundaryless matches, in Distribution's output and in what identify     *)
(* returns: only the boundaryless filter decides them.                     *)

BoundarylessOnly(ms) == SelectSeq(ms, LAMBDA m : ~m.bounded)
BoundedOnly(ms) == SelectSeq(ms, LAMBDA m : m.bounded)

DifferOnlyInBoundedFilter(c, d) ==
    /\ c.text_input = d.text_input /\ c.only_text = d.only_text
    /\ c.key = d.key /\ c.reverse = d.reverse
    /\ c.boundaryless_rarity = d.boundaryless_rarity
    /\ c.boundaryless_include = d.boundaryless_include
    /\ c.boundaryless_exclude = d.boundaryless_exclude

C2_DistributionIndependence ==
    \A i \in DOMAIN pc : \A j \in DOMAIN pc :
        (Identified(i) /\ Identified(j)
            /\ DifferOnlyInBoundedFilter(cfg[i], cfg[j])) =>
            /\ BoundarylessOnly(classified[i]) = BoundarylessOnly(classified[j])
            /\ BoundarylessOnly(distributed[i]) = BoundarylessOnly(distributed[j])
            /\ BoundarylessOnly(Val(identified_output[i]))
                   = BoundarylessOnly(Val(identified_output[j]))

\* Both runs have identified; the change of the bounded filter changed the
\* bounded survivors, and the boundaryless filter kept one boundaryless
\* match and dropped another.
C2_Witness ==
    \E i \in DOMAIN pc : \E j \in DOMAIN pc :
        /\ i # j /\ Identified(i) /\ Identified(j)
        /\ DifferOnlyInBoundedFilter(cfg[i], cfg[j])
        /\ cfg[i].rarity # cfg[j].rarity
        /\ BoundedOnly(distributed[i]) # BoundedOnly(distributed[j])
        /\ BoundarylessOnly(distributed[i]) # <<>>
        /\ BoundarylessOnly(distributed[i]) # BoundarylessOnly(classified[i])

-----------------------------------------------------------------------------
(* C3: when the include or exclude tags of either filter name a tag        *)
(* outside the catalog's vocabulary, that filter is never constructed, the *)
(* run ends with exit status 1 and identify is never called (nothing is    *)
(* matched); when the unknown tag is the first thing wrong with the        *)
(* command line, the run ends in create_filter's InvalidTag handler with   *)
(* its message.                                                            *)

C3_UnknownTagStopsBeforeIdentify ==
    \A i \in DOMAIN pc :
        LET c == cfg[i]
            ub == UnknownTags(c.include, c.exclude)
            ul == UnknownTags(c.boundaryless_include, c.boundaryless_exclude)
        IN /\ ub => dist[i] = None
           /\ ul => boundaryless[i] = None
           /\ (ub \/ ul) =>
                /\ call[i] = None /\ raw[i] = <<>> /\ classified[i] = <<>>
                /\ identified_output[i] = None /\ printed[i] = None
                /\ pc[i] \in {"dist", "boundaryless", "exited", "raised"}
                /\ pc[i] \in Terminal => exit_code[i] = Some(1)
           /\ (/\ ub /\ RarityWellFormed(c.rarity) /\ ~RarityInverted(c.rarity)
               /\ pc[i] \in Terminal) =>
                pc[i] = "exited" /\ stdout[i] = <<MsgTags>>
           /\ (/\ ul /\ BoundedArgsValid(c)
               /\ RarityWellFormed(c.boundaryless_rarity)
               /\ ~RarityInverted(c.boundaryless_rarity)
               /\ pc[i] \in Terminal) =>
                pc[i] = "exited" /\ stdout[i] = <<MsgTags>>

\* The bounded filter was built, the boundaryless filter names an unknown
\* tag, and the run has ended in the InvalidTag handler.
C3_Witness ==
    \E i \in DOMAIN pc :
        /\ UnknownTags(cfg[i].boundaryless_include, cfg[i].boundaryless_exclude)
        /\ dist[i] # None
        /\ pc[i] = "exited" /\ stdout[i] = <<MsgTags>> /\ exit_code[i] = Some(1)
        /\ call[i] = None

-----------------------------------------------------------------------------
(* C10: a command line with a configuration error (a rarity argument that  *)
(* does not split in two on ':', a rarity side that is not a float, an     *)
(* unknown tag, an unrecognised sort key; for either filter) ends with     *)
(* exit status 1 before what_is_this is called; identify is called and the *)
(* result printed only after both filters and the key were validated, and  *)
(* sys.exit(1) is reached only for such an error.                          *)

C10_ConfigErrorsEndBeforeIdentify ==
    \A i \in DOMAIN pc :
        /\ ConfigError(cfg[i]) =>
             /\ call[i] = None /\ identified_output[i] = None
             /\ printed[i] = None
             /\ pc[i] \in {"dist", "boundaryless", "what_obj", "key",
                           "exited", "raised"}
             /\ pc[i] \in Terminal => exit_code[i] = Some(1)
        /\ call[i] # None =>
             dist[i] # None /\ boundaryless[i] # None /\ key[i] # None
        /\ printed[i] # None => ~ConfigError(cfg[i]) /\ call[i] # None
        /\ pc[i] = "exited" =>
             /\ ConfigError(cfg[i])
             /\ Len(stdout[i]) = 1
             /\ stdout[i][1] \in {MsgRarityFormat, MsgRarityFloat, MsgTags, MsgKey}

\* Both filters were built, the key is not a key, and the run has ended
\* with status 1 and without a call of what_is_this.
C10_Witness ==
    \E i \in DOMAIN pc :
        /\ BadKey(cfg[i].key)
        /\ dist[i] # None /\ boundaryless[i] # None
        /\ pc[i] = "exited" /\ exit_code[i] = Some(1) /\ stdout[i] = <<MsgKey>>
        /\ call[i] = None /\ printed[i] = None

-----------------------------------------------------------------------------
(* C4: a rarity argument whose range has min > max (such as "0.9:0.2")     *)
(* never yields a Filter: construction fails with InvalidRange, which      *)
(* create_filter does not catch, and no filter with min > max is ever      *)
(* passed to identify.                                                     *)

C4_InvertedRangeIsRejected ==
    \A i \in DOMAIN pc :
        LET c == cfg[i]
        IN /\ RarityInverted(c.rarity) =>
                /\ dist[i] = None
                /\ pc[i] \in {"dist", "exited", "raised"}
                /\ pc[i] = "exited" => UnknownTags(c.include, c.exclude)
           /\ RarityInverted(c.boundaryless_rarity) =>
                /\ boundaryless[i] = None
                /\ pc[i] \in {"dist", "boundaryless", "exited", "raised"}
                /\ pc[i] = "exited" => ConfigError(c)
           /\ pc[i] = "raised" =>
                /\ uncaught[i] = Some("InvalidRange")
                /\ RarityInverted(c.rarity) \/ RarityInverted(c.boundaryless_rarity)
           /\ call[i] # None =>
                /\ RLeq(Val(call[i]).dist.filter.MinRarity,
                        Val(call[i]).dist.filter.MaxRarity)
                /\ RLeq(Val(call[i]).boundaryless.MinRarity,
                        Val(call[i]).boundaryless.MaxRarity)

\* --rarity 0.9:0.2 has ended the run with InvalidRange, no filter built.
C4_Witness ==
    \E i \in DOMAIN pc :
        /\ cfg[i].rarity = Some(<<"0", ".", "9", ":", "0", ".", "2">>)
        /\ pc[i] = "raised" /\ uncaught[i] = Some("InvalidRange")
        /\ dist[i] = None /\ call[i] = None

-----------------------------------------------------------------------------
(* C9: a filter built from the rarity argument "min:max", with no tag      *)
(* criteria, keeps a match iff min <= rarity <= max, both ends inclusive;  *)
(* an empty or whitespace-only side counts as min = 0, max = 1.            *)

C9_RarityRangeInclusiveWithDefaults ==
    \A i \in DOMAIN pc :
        Distributed(i) =>
            LET c == cfg[i]
            IN \A j \in 1..Len(classified[i]) :
                 LET m == classified[i][j]
                 IN /\ (m.bounded /\ IsNone(c.include) /\ IsNone(c.exclude)) =>
                        (m \in Range(distributed[i]) <=> InClaimedRange(c.rarity, m))
                    /\ (/\ ~m.bounded /\ IsNone(c.boundaryless_include)
                        /\ IsNone(c.boundaryless_exclude)) =>
                        (m \in Range(distributed[i])
                            <=> InClaimedRange(c.boundaryless_rarity, m))

\* The min side is left out and the max side is given: a bounded match of
\* rarity 0 and one whose rarity equals max are kept, one above max is
\* dropped.
C9_Witness ==
    \E i \in DOMAIN pc :
        /\ Distributed(i)
        /\ IsNone(cfg[i].include) /\ IsNone(cfg[i].exclude)
        /\ ~SideGiven(RaritySides(cfg[i].rarity)[1])
        /\ SideGiven(RaritySides(cfg[i].rarity)[2])
        /\ \E m \in Range(distributed[i]) :
               m.bounded /\ SigOf(m).rarity = <<0, 1>>
        /\ \E m \in Range(distributed[i]) :
               /\ m.bounded /\ SigOf(m).rarity # <<0, 1>>
               /\ RLeq(ClaimedMax(cfg[i].rarity), SigOf(m).rarity)
        /\ \E m \in Range(classified[i]) :
               m.bounded /\ m \notin Range(distributed[i])

-----------------------------------------------------------------------------
(* C5: Distribution's output is the bounded matches the bounded filter     *)
(* accepts followed by the boundaryless matches the boundaryless filter    *)
(* accepts: nothing added or duplicated, a match present iff its own       *)
(* partition's filter accepts it, bounded survivors first, and within a    *)
(* partition the classified (emission) order.  The two filters are the     *)
(* ones create_filter returns for the bounded and for the boundaryless     *)
(* arguments.                                                              *)

\* The filter create_filter returns for valid arguments.
ArgsGiveFilter(r, inc, exc) ==
    \E o \in create_filter(r, inc, exc) : o.kind = "return"
FilterFromArgs(r, inc, exc) ==
    Val((CHOOSE o \in create_filter(r, inc, exc) : o.kind = "return").filter)

Pos(ms, m) == CHOOSE k \in 1..Len(ms) : ms[k] = m

C5_DistributionPartitionsAndMerges ==
    \A i \in DOMAIN pc :
        Distributed(i) =>
            LET c == cfg[i]
                C == classified[i]
                D == distributed[i]
                fb == FilterFromArgs(c.rarity, c.include, c.exclude)
                fl == FilterFromArgs(c.boundaryless_rarity, c.boundaryless_include,
                                     c.boundaryless_exclude)
            IN /\ ArgsGiveFilter(c.rarity, c.include, c.exclude)
               /\ ArgsGiveFilter(c.boundaryless_rarity, c.boundaryless_include,
                                 c.boundaryless_exclude)
               /\ \A p \in 1..Len(D) : D[p] \in Range(C)
               /\ \A p \in 1..Len(D) : \A q \in 1..Len(D) : p # q => D[p] # D[q]
               /\ \A j \in 1..Len(C) :
                      C[j] \in Range(D) <=>
                          IF C[j].bounded THEN accepts(fb, C[j]) ELSE accepts(fl, C[j])
               /\ \A p \in 1..Len(D) : \A q \in 1..Len(D) :
                      p < q =>
                          /\ D[q].bounded => D[p].bounded
                          /\ D[p].bounded = D[q].bounded => Pos(C, D[p]) < Pos(C, D[q])

\* Each partition has a survivor and a dropped match, and a surviving
\* bounded match that was emitted after a surviving boundaryless one now
\* precedes it.
C5_Witness ==
    \E i \in DOMAIN pc :
        /\ Distributed(i)
        /\ \E m \in Range(classified[i]) : m.bounded /\ m \notin Range(distributed[i])
        /\ \E m \in Range(classified[i]) : ~m.bounded /\ m \notin Range(distributed[i])
        /\ \E p \in 1..Len(distributed[i]) : \E q \in 1..Len(distributed[i]) :
               /\ p < q
               /\ distributed[i][p].bounded /\ ~distributed[i][q].bounded
               /\ Pos(classified[i], distributed[i][q])
                      < Pos(classified[i], distributed[i][p])

-----------------------------------------------------------------------------
(* C6: without --key main passes Keys.NONE, and identify then returns      *)
(* Distribution's output unchanged when reverse is false and exactly       *)
(* reversed when reverse is true.                                          *)

C6_NoKeyKeepsOrReverses ==
    \A i \in DOMAIN pc :
        IsNone(cfg[i].key) =>
            /\ key[i] # None => key[i] = Some(KeysNONE)
            /\ Identified(i) =>
                 LET D == distributed[i]
                     out == Val(identified_output[i])
                 IN /\ Len(out) = Len(D)
                    /\ \A k \in 1..Len(D) :
                         out[k] = IF cfg[i].reverse THEN D[Len(D) + 1 - k] ELSE D[k]

\* No --key, --reverse, several matches: the output is not Distribution's
\* sequence but its reversal.
C6_Witness ==
    \E i \in DOMAIN pc :
        /\ IsNone(cfg[i].key) /\ cfg[i].reverse /\ Identified(i)
        /\ Len(distributed[i]) >= 3
        /\ Val(identified_output[i]) # distributed[i]
        /\ Val(identified_output[i])[1] = distributed[i][Len(distributed[i])]

-----------------------------------------------------------------------------
(* C7: with --key name, rarity or matched, reverse false gives the matches *)
(* in key order with ties in Distribution's order; reverse true gives the  *)
(* exact inversion of that sequence: descending key order with ties in the *)
(* opposite of Distribution's order.                                       *)

ClaimedLess(k, m1, m2) ==
    CASE k = "name" -> LexLess(SigOf(m1).name, SigOf(m2).name)
      [] k = "rarity" -> ~RLeq(SigOf(m2).rarity, SigOf(m1).rarity)
      [] k = "matched" -> LexLess(m1.text, m2.text)

C7_KeyOrderStableAndReversible ==
    \A i \in DOMAIN pc :
        (Identified(i) /\ ~IsNone(cfg[i].key) /\ Val(cfg[i].key) # "none") =>
            LET k == Val(cfg[i].key)
                D == distributed[i]
                out == Val(identified_output[i])
            IN /\ Len(out) = Len(D) /\ Range(out) = Range(D)
               /\ \A p \in 1..Len(out) : \A q \in 1..Len(out) :
                    p < q =>
                        IF cfg[i].reverse
                        THEN /\ ~ClaimedLess(k, out[p], out[q])
                             /\ ~ClaimedLess(k, out[q], out[p])
                                    => Pos(D, out[p]) > Pos(D, out[q])
                        ELSE /\ ~ClaimedLess(k, out[q], out[p])
                             /\ ~ClaimedLess(k, out[p], out[q])
                                    => Pos(D, out[p]) < Pos(D, out[q])

\* A key and --reverse: the output holds two matches tied on the key, in
\* the opposite of their Distribution order, and two that the key orders.
C7_Witness ==
    \E i \in DOMAIN pc :
        /\ Identified(i) /\ ~IsNone(cfg[i].key) /\ Val(cfg[i].key) # "none"
        /\ cfg[i].reverse
        /\ LET k == Val(cfg[i].key)
               D == distributed[i]
               out == Val(identified_output[i])
           IN /\ \E p \in 1..Len(out) : \E q \in 1..Len(out) :
                    /\ p < q
                    /\ ~ClaimedLess(k, out[p], out[q])
                    /\ ~ClaimedLess(k, out[q], out[p])
                    /\ Pos(D, out[p]) > Pos(D, out[q])
              /\ \E p \in 1..Len(out) : \E q \in 1..Len(out) :
                    p < q /\ ClaimedLess(k, out[q], out[p])
              /\ out # Reverse(D)

-----------------------------------------------------------------------------
(* C8 as stated: a match is bounded iff on each side of its span there is  *)
(* no character or a non-alphanumeric character.                           *)

Classified(i) == pc[i] \in {"distribute", "sort", "print", "returned"}

Before(m, blob) == IF m.span[1] > 1 THEN Some(blob[m.span[1] - 1]) ELSE None
After(m, blob) == IF m.span[2] < Len(blob) THEN Some(blob[m.span[2] + 1]) ELSE None

NotAlnumSide(side) == IsNone(side) \/ ~IsAlnum(Val(side))

BoundarySide(m, side) ==
    \/ IsNone(side)
    \/ /\ ~IsAlnum(Val(side))
       /\ \A k \in 1..Len(SigOf(m).pattern) : SigOf(m).pattern[k] # Val(side)

ToyText == <<"1", "A", "1">>

====
